---- MODULE Spec2Model ----
(***************************************************************************)
(* Model of the Kova402 x402 SDK (src/src/client/index.ts):                *)
(*   - KovaPaymentHandler (server side): extractPayment,                   *)
(*     createPaymentRequirements, verifyPayment, settlePayment,            *)
(*     create402Response and the Express middleware;                       *)
(*   - createKovaClient (client side): fetch with the 402 handshake.       *)
(*                                                                         *)
(* JavaScript strings are sequences of UTF-16 code units (naturals).       *)
(* JavaScript values are tagged records (t = "undefined", "null",          *)
(* "boolean", "number", "string", "object"); an object is a function from  *)
(* its own property names to values.  A JSON text is a different thing:    *)
(* a tree of tokens in which an object is an ordered list of members and   *)
(* a number is its digits.  JSON.stringify and JSON.parse convert between  *)
(* the two.                                                                *)
(***************************************************************************)
EXTENDS Integers, Sequences, FiniteSets, TLC

\* ------------------------------------------------------------------------
\* Bounds of the model (not program constants)
\* ------------------------------------------------------------------------

\* number of requests handled concurrently by one middleware
NumReqs == 2

\* ------------------------------------------------------------------------
\* String literals of the source, as code units
\* ------------------------------------------------------------------------

\* 'exact'
sExact == <<101, 120, 97, 99, 116>>

\* 'upto'
sUpto == <<117, 112, 116, 111>>

\* 'Payment Required'
sPaymentRequired == <<80, 97, 121, 109, 101, 110, 116, 32, 82, 101, 113, 117, 105, 114, 101, 100>>

\* 'Invalid payment'
sInvalidPayment == <<73, 110, 118, 97, 108, 105, 100, 32, 112, 97, 121, 109, 101, 110, 116>>

\* '/'
sSlash == <<47>>

\* '/verify'
sVerifyPath == <<47, 118, 101, 114, 105, 102, 121>>

\* '/settle'
sSettlePath == <<47, 115, 101, 116, 116, 108, 101>>

\* ------------------------------------------------------------------------
\* JavaScript values
\* ------------------------------------------------------------------------

JUndef == [t |-> "undefined"]

JNull == [t |-> "null"]

JBool(b) == [t |-> "boolean", b |-> b]

JNum(n) == [t |-> "number", n |-> n]

JStr(s) == [t |-> "string", s |-> s]

JObj(f) == [t |-> "object", f |-> f]

JBigInt(n) == [t |-> "bigint", n |-> n]

\* an array, with its elements in order
JArr(a) == [t |-> "array", a |-> a]

\* ToBoolean: what `!x`, `x || y` and `x && y` test
Truthy(v) ==
  CASE v.t = "undefined" -> FALSE
    [] v.t = "null"      -> FALSE
    [] v.t = "boolean"   -> v.b
    [] v.t = "number"    -> v.n # 0
    [] v.t = "bigint"    -> v.n # 0
    [] v.t = "string"    -> v.s # <<>>
    [] OTHER             -> TRUE

\* a === b for the values compared in the source
StrictEq(a, b) ==
  /\ a.t = b.t
  /\ CASE a.t = "boolean" -> a.b = b.b
       [] a.t = "number"  -> a.n = b.n
       [] a.t = "string"  -> a.s = b.s
       [] a.t = "object"  -> FALSE
       [] OTHER           -> TRUE

\* v.k throws a TypeError when v is null or undefined
CanGet(v) == v.t \notin {"null", "undefined"}

\* v.k where it does not throw: own property of an object, undefined otherwise
Get(v, k) ==
  IF v.t = "object" /\ k \in DOMAIN v.f THEN v.f[k] ELSE JUndef

\* a || b
Or(a, b) == IF Truthy(a) THEN a ELSE b

\* ------------------------------------------------------------------------
\* JSON texts
\* ------------------------------------------------------------------------

\* the empty string
TEmpty == [k |-> "empty"]

\* a non-empty string that is not a JSON text
TInvalid == [k |-> "invalid"]

TNull == [k |-> "null"]

TBool(b) == [k |-> "boolean", b |-> b]

TNum(digits) == [k |-> "number", s |-> digits]

TStr(s) == [k |-> "string", s |-> s]

TObj(m) == [k |-> "object", m |-> m]

TArr(a) == [k |-> "array", a |-> a]

\* a non-empty string that is not a JSON text, with its code units
TRaw(s) == [k |-> "raw", s |-> s]

IsJSON(text) == text.k \notin {"empty", "invalid", "raw"}

\* property names in the order the source writes them
KeyOrder ==
  << "error", "x402Version", "scheme", "network", "paymentPayload", "payload",
     "payTo", "maxAmountRequired", "resource", "asset", "paymentRequirements",
     "from", "to", "value", "validAfter", "validBefore", "nonce",
     "v", "r", "s", "isValid", "payer", "transactionHash",
     "status", "uptime", "version", "networks", "paymentSchemes",
     "assets", "capabilities" >>

RECURSIVE NatToStr(_)
\* Number.prototype.toString / BigInt.prototype.toString for n >= 0
NatToStr(n) ==
  IF n < 10 THEN <<48 + n>> ELSE Append(NatToStr(n \div 10), 48 + (n % 10))

IsDigits(s) == \A i \in DOMAIN s : s[i] \in 48..57

RECURSIVE DigitsToNat(_)
DigitsToNat(s) ==
  IF s = <<>> THEN 0
  ELSE 10 * DigitsToNat(SubSeq(s, 1, Len(s) - 1)) + (s[Len(s)] - 48)

RECURSIVE JSONstringify(_)
RECURSIVE StringifyMembers(_, _)
\* members of object function f for the keys KeyOrder[i..]; a property whose
\* value is undefined is omitted
StringifyMembers(f, i) ==
  IF i > Len(KeyOrder) THEN <<>>
  ELSE IF KeyOrder[i] \in DOMAIN f /\ f[KeyOrder[i]].t # "undefined"
       THEN << <<KeyOrder[i], JSONstringify(f[KeyOrder[i]])>> >>
              \o StringifyMembers(f, i + 1)
       ELSE StringifyMembers(f, i + 1)

\* JSON.stringify(v) for v not undefined
JSONstringify(v) ==
  CASE v.t = "null"    -> TNull
    [] v.t = "boolean" -> TBool(v.b)
    [] v.t = "number"  -> TNum(NatToStr(v.n))
    [] v.t = "string"  -> TStr(v.s)
    [] v.t = "array"   -> TArr([i \in DOMAIN v.a |-> JSONstringify(v.a[i])])
    [] v.t = "object"  -> TObj(StringifyMembers(v.f, 1))

RECURSIVE JSONparse(_)
\* JSON.parse(text) for a text with IsJSON(text); it throws a SyntaxError otherwise
JSONparse(text) ==
  CASE text.k = "null"    -> JNull
    [] text.k = "boolean" -> JBool(text.b)
    [] text.k = "number"  -> JNum(DigitsToNat(text.s))
    [] text.k = "string"  -> JStr(text.s)
    [] text.k = "array"   -> JArr([i \in DOMAIN text.a |-> JSONparse(text.a[i])])
    [] text.k = "object"  ->
         JObj([key \in {text.m[i][1] : i \in DOMAIN text.m} |->
                 JSONparse(text.m[CHOOSE i \in DOMAIN text.m : text.m[i][1] = key][2])])

RECURSIVE IsByteString(_)
\* WebIDL ByteString conversion of a header value: every code unit of the
\* string is at most 255 (JSON.stringify leaves such characters unescaped)
IsByteString(text) ==
  CASE text.k \in {"string", "raw"} -> \A i \in DOMAIN text.s : text.s[i] <= 255
    [] text.k = "array"  -> \A i \in DOMAIN text.a : IsByteString(text.a[i])
    [] text.k = "object" -> \A i \in DOMAIN text.m : IsByteString(text.m[i][2])
    [] OTHER             -> TRUE

\* ------------------------------------------------------------------------
\* Inputs of the server side
\* ------------------------------------------------------------------------

\* 'http://f/' and 'http://f': a facilitator base URL with and without a
\* trailing slash
sFacUrlSlash == <<104, 116, 116, 112, 58, 47, 47, 102, 47>>

sFacUrl == <<104, 116, 116, 112, 58, 47, 47, 102>>

\* 'solana-devnet'
sNet == <<115, 111, 108, 97, 110, 97, 45, 100, 101, 118, 110, 101, 116>>

\* 'base-sepolia'
sNetOther == <<98, 97, 115, 101, 45, 115, 101, 112, 111, 108, 105, 97>>

\* 'Tr' : the treasury address
sTreasury == <<84, 114>>

\* 'Ev' : a payee a client may have put into its envelope
sOtherPayee == <<69, 118>>

\* '5' and '1' : amounts
sFive == <<53>>

sOne == <<49>>

\* '/paid', '/o', '/u' : resources and request URLs
sPaid == <<47, 112, 97, 105, 100>>

sOrigUrl == <<47, 111>>

sUrl == <<47, 117>>

\* 'Pk' : a payer's public key
sPayer == <<80, 107>>

\* '0x1' : a transaction hash
sTxHash == <<48, 120, 49>>

HandlerConfigs ==
  { [facilitatorUrl |-> u, network |-> sNet, treasuryAddress |-> sTreasury]
      : u \in {sFacUrlSlash, sFacUrl} }

\* config of middleware(): amount, optional resource, optional onPaymentVerified
MwConfigs ==
  { [amount |-> JStr(sFive), resource |-> res, onPaymentVerified |-> cb]
      : res \in {JUndef, JStr(sPaid)}, cb \in BOOLEAN }

\* a payment payload as a client sends it
SamplePayload ==
  JObj([x402Version |-> JNum(1), scheme |-> JStr(sExact), network |-> JStr(sNet),
        payload |-> JObj([from |-> JStr(sPayer), to |-> JStr(sTreasury),
                          value |-> JStr(sFive)])])

\* the requirements the server asks for, and requirements a client made up
SampleReqs ==
  JObj([scheme |-> JStr(sExact), network |-> JStr(sNet), payTo |-> JStr(sTreasury),
        maxAmountRequired |-> JStr(sFive), resource |-> JStr(sPaid)])

ForgedReqs ==
  JObj([scheme |-> JStr(sUpto), network |-> JStr(sNetOther), payTo |-> JStr(sOtherPayee),
        maxAmountRequired |-> JStr(sOne), resource |-> JStr(sUrl)])

Envelope(pp, pr) ==
  JObj([x402Version |-> JNum(1), paymentPayload |-> pp, paymentRequirements |-> pr])

EnvText == JSONstringify(Envelope(SamplePayload, SampleReqs))

ForgedEnvText == JSONstringify(Envelope(SamplePayload, ForgedReqs))

NoPayloadText == JSONstringify(Envelope(JUndef, SampleReqs))

NoReqsText == JSONstringify(Envelope(SamplePayload, JUndef))

\* header values of an Express-style record: string, string[] or undefined
HStr(text) == [t |-> "string", s |-> text]

HArr(texts) == [t |-> "array", a |-> texts]

HUndef == [t |-> "undefined"]

\* the header names of the model, and their lower-case form
HeaderNames == {"x-payment", "X-Payment", "X-PAYMENT", "content-type"}

LowerName(name) ==
  IF name \in {"x-payment", "X-Payment", "X-PAYMENT"} THEN "x-payment" ELSE name

\* headers: a Headers object (it keeps names in lower case and looks them up
\* in lower case; a value is a string) or a plain record from the names it
\* has to header values
HeadersObject(h) == [shape |-> "Headers", h |-> h]

HeadersRecord(h) == [shape |-> "record", h |-> h]

NoHeaders == HeadersRecord([n \in {} |-> HUndef])

OneHeader(name, value) == HeadersRecord([n \in {name} |-> value])

\* requests the middleware is invoked on
Requests ==
  { [headers |-> NoHeaders, originalUrl |-> JUndef, url |-> JStr(sUrl)],
    [headers |-> NoHeaders, originalUrl |-> JUndef, url |-> JUndef],
    [headers |-> OneHeader("x-payment", HStr(TInvalid)),
       originalUrl |-> JStr(sOrigUrl), url |-> JStr(sUrl)],
    [headers |-> OneHeader("x-payment", HStr(EnvText)),
       originalUrl |-> JStr(sOrigUrl), url |-> JStr(sUrl)],
    [headers |-> OneHeader("X-Payment", HStr(ForgedEnvText)),
       originalUrl |-> JStr(sOrigUrl), url |-> JStr(sUrl)] }

\* what a call to the facilitator can come to: the fetch rejects, or a
\* response arrives with some body
NetError == [kind |-> "error", error |-> "NetworkError"]

Responded(text) == [kind |-> "response", body |-> text]

VerifyOutcomes ==
  { NetError, Responded(TInvalid), Responded(TNull),
    Responded(JSONstringify(JObj([isValid |-> JBool(TRUE), payer |-> JStr(sPayer)]))),
    Responded(JSONstringify(JObj([isValid |-> JBool(FALSE)]))),
    Responded(JSONstringify(JObj([payer |-> JStr(sPayer)]))),
    Responded(JSONstringify(JObj([isValid |-> JStr(<<116, 114, 117, 101>>)]))) }

SettleOutcomes ==
  { NetError, Responded(TInvalid), Responded(TNull),
    Responded(JSONstringify(JObj([isValid |-> JBool(TRUE),
                                  transactionHash |-> JStr(sTxHash)]))),
    Responded(JSONstringify(JObj([isValid |-> JBool(FALSE)]))) }

\* ------------------------------------------------------------------------
\* KovaPaymentHandler
\* ------------------------------------------------------------------------

\* config.facilitatorUrl.replace(/\/$/, '')
StripTrailingSlash(s) ==
  IF s # <<>> /\ s[Len(s)] = 47 THEN SubSeq(s, 1, Len(s) - 1) ELSE s

\* constructor
NewHandler(config) ==
  [facilitatorUrl  |-> StripTrailingSlash(config.facilitatorUrl),
   network         |-> config.network,
   treasuryAddress |-> config.treasuryAddress]

\* headers[name] of a plain record
HeaderOf(headers, name) ==
  IF name \in DOMAIN headers.h THEN headers.h[name] ELSE HUndef

\* truthiness of a header value: an array is truthy even when empty
HeaderTruthy(v) ==
  CASE v.t = "undefined" -> FALSE
    [] v.t = "string"    -> v.s # TEmpty
    [] OTHER             -> TRUE

\* the string extractPayment goes on to parse; TEmpty stands for null and ''
PaymentHeader(headers) ==
  IF headers.shape = "Headers"
  THEN IF LowerName("X-Payment") \in DOMAIN headers.h
       THEN headers.h[LowerName("X-Payment")]
       ELSE TEmpty
  ELSE LET lower == HeaderOf(headers, "x-payment")
           xPayment == IF HeaderTruthy(lower) THEN lower
                       ELSE HeaderOf(headers, "X-Payment")
       IN  CASE xPayment.t = "string" -> xPayment.s
             [] xPayment.t = "array" /\ Len(xPayment.a) > 0 -> xPayment.a[1]
             [] OTHER -> TEmpty

\* extractPayment: the parsed envelope, or JNull
extractPayment(headers) ==
  LET paymentHeader == PaymentHeader(headers) IN
  IF paymentHeader = TEmpty THEN JNull
  ELSE IF ~IsJSON(paymentHeader) THEN JNull
  ELSE LET parsed == JSONparse(paymentHeader) IN
       IF ~CanGet(parsed) THEN JNull
       ELSE IF ~Truthy(Get(parsed, "paymentPayload"))
               \/ ~Truthy(Get(parsed, "paymentRequirements"))
            THEN JNull
            ELSE parsed

\* a variant of createPaymentRequirements that copies the asset even when
\* none is given
createPaymentRequirements_AssetAlways(h, config) ==
  JObj([scheme            |-> JStr(sExact),
        network           |-> JStr(h.network),
        payTo             |-> JStr(h.treasuryAddress),
        maxAmountRequired |-> config.amount,
        resource          |-> config.resource,
        asset             |-> config.asset])

\* createPaymentRequirements: config has amount, resource and an optional asset
createPaymentRequirements(h, config) ==
  LET base == [scheme            |-> JStr(sExact),
               network           |-> JStr(h.network),
               payTo             |-> JStr(h.treasuryAddress),
               maxAmountRequired |-> config.amount,
               resource          |-> config.resource]
  IN  IF Truthy(config.asset)
      THEN JObj([k \in DOMAIN base \cup {"asset"} |->
                   IF k = "asset" THEN config.asset ELSE base[k]])
      ELSE JObj(base)

\* a variant of create402Response whose body lacks the protocol version
create402Response_NoVersion(requirements) ==
  [status |-> 402,
   body   |-> JObj([error               |-> JStr(sPaymentRequired),
                    paymentRequirements |-> requirements])]

\* create402Response
create402Response(requirements) ==
  [status |-> 402,
   body   |-> JObj([error               |-> JStr(sPaymentRequired),
                    x402Version         |-> JNum(1),
                    paymentRequirements |-> requirements])]

\* the request verifyPayment and settlePayment send to the facilitator
\* a variant that forwards the requirements the client's envelope carries
FacilitatorCall_ClientRequirements(h, path, payment, requirements) ==
  [url    |-> h.facilitatorUrl \o path,
   method |-> "POST",
   body   |-> JSONstringify(JObj([x402Version         |-> JNum(1),
                                  paymentPayload      |-> Get(payment, "paymentPayload"),
                                  paymentRequirements |-> Get(payment, "paymentRequirements")]))]

FacilitatorCall(h, path, payment, requirements) ==
  [url    |-> h.facilitatorUrl \o path,
   method |-> "POST",
   body   |-> JSONstringify(JObj([x402Version         |-> JNum(1),
                                  paymentPayload      |-> Get(payment, "paymentPayload"),
                                  paymentRequirements |-> requirements]))]

\* the error `await fetch(...)` followed by `await response.json()` throws on
\* an outcome, "none" when it throws nothing
FetchJsonError(outcome) ==
  IF outcome.kind = "error" THEN outcome.error
  ELSE IF ~IsJSON(outcome.body) THEN "SyntaxError"
  ELSE "none"

\* a variant of the test that accepts any truthy isValid
IsValidTest_Truthy(result) == Truthy(Get(result, "isValid"))

\* the test verifyPayment applies to the parsed response
IsValidTest(result) == StrictEq(Get(result, "isValid"), JBool(TRUE))

\* a variant of verifyPayment whose catch block lets the payment through
verifyPayment_FailOpen(outcome) ==
  IF FetchJsonError(outcome) # "none" THEN TRUE
  ELSE LET result == JSONparse(outcome.body) IN
       IF ~CanGet(result) THEN TRUE
       ELSE IsValidTest(result)

\* verifyPayment: the boolean its promise is fulfilled with
verifyPayment(outcome) ==
  IF FetchJsonError(outcome) # "none" THEN FALSE
  ELSE LET result == JSONparse(outcome.body) IN
       IF ~CanGet(result) THEN FALSE
       ELSE IsValidTest(result)

\* what verifyPayment logs with console.error
verifyPaymentLog(outcome) ==
  IF FetchJsonError(outcome) # "none" THEN <<FetchJsonError(outcome)>>
  ELSE IF ~CanGet(JSONparse(outcome.body)) THEN <<"TypeError">>
  ELSE <<>>

\* a variant of the catch block that throws an error of its own
settleRethrow_Wrapped(error) == "SettlementError"

\* the catch block of settlePayment: log, then rethrow the same error
settleRethrow(error) == error

\* settlePayment: the state its promise settles in
settlePayment(outcome) ==
  IF FetchJsonError(outcome) # "none"
  THEN [state |-> "rejected", error |-> settleRethrow(FetchJsonError(outcome))]
  ELSE [state |-> "fulfilled", value |-> JSONparse(outcome.body)]

\* ------------------------------------------------------------------------
\* The middleware: one invocation per request r
\* ------------------------------------------------------------------------

Reqs == 1..NumReqs

NoReq == [headers |-> NoHeaders, originalUrl |-> JUndef, url |-> JUndef]

NoOutcome == [kind |-> "none"]

NoPromise == [state |-> "none"]

Pending == [state |-> "pending"]

Fulfilled(v) == [state |-> "fulfilled", value |-> v]

Rejected(e) == [state |-> "rejected", error |-> e]

VARIABLES
  handler,        \* the fields of the KovaPaymentHandler
  mwConfig,       \* the config the middleware was created with
  pc,             \* r -> "idle", "awaitVerify" or "done"
  req,            \* r -> the request the middleware was invoked on
  mwP,            \* r -> the promise the middleware function returned
  verifyOutcome,  \* r -> what the /verify call came to
  verifyP,        \* r -> the promise of verifyPayment
  settleOutcome,  \* r -> what the /settle call came to
  settleP,        \* r -> the promise of settlePayment
  calls,          \* r -> the requests sent to the facilitator, in order
  responses,      \* r -> the responses written with res.status().json()
  nextCalls,      \* r -> the number of calls of next()
  cbCalls,        \* r -> the arguments onPaymentVerified was called with
  cbResult,       \* r -> "none", or how the call of onPaymentVerified ended
  trace,          \* r -> the events of the invocation, in order
  log             \* r -> what console.error was called with

serverVars ==
  << handler, mwConfig, pc, req, mwP, verifyOutcome, verifyP, settleOutcome,
     settleP, calls, responses, nextCalls, cbCalls, cbResult, trace, log >>

\* const resource = config.resource || req.originalUrl || req.url || '/'
ResourceOf(config, request) ==
  Or(Or(Or(config.resource, request.originalUrl), request.url), JStr(sSlash))

\* the requirements the middleware builds for a request
RequirementsOf(h, config, request) ==
  createPaymentRequirements(h, [amount   |-> config.amount,
                                resource |-> ResourceOf(config, request),
                                asset    |-> JUndef])

\* a variant of the invalid-payment body that repeats the challenge's error
InvalidPaymentBody_Challenge == JObj([error |-> JStr(sPaymentRequired)])

\* the body of the 402 answer to a payment that did not verify
InvalidPaymentBody == JObj([error |-> JStr(sInvalidPayment)])

\* what onPaymentVerified does when it is called
CallbackBehaviours == {"returns", "throws"}

\* the events of the middleware after verifyPayment returned true: the
\* optional callback, then settlePayment up to its first await (which sends
\* the /settle request), then next()
\* a variant in which a throw of the callback is caught and ignored
AcceptSteps_ThrowIgnored(hasCallback, behaviour) ==
  (IF hasCallback THEN <<"callback">> ELSE <<>>) \o <<"settle_req", "next">>

\* a variant that calls next before it issues the settlement
AcceptSteps_NextFirst(hasCallback, behaviour) ==
  IF hasCallback /\ behaviour = "throws" THEN <<"callback">>
  ELSE (IF hasCallback THEN <<"callback">> ELSE <<>>) \o <<"next", "settle_req">>

\* a variant that issues the settlement twice
AcceptSteps_SettleTwice(hasCallback, behaviour) ==
  IF hasCallback /\ behaviour = "throws" THEN <<"callback">>
  ELSE (IF hasCallback THEN <<"callback">> ELSE <<>>)
         \o <<"settle_req", "settle_req", "next">>

AcceptSteps(hasCallback, behaviour) ==
  IF hasCallback /\ behaviour = "throws" THEN <<"callback">>
  ELSE (IF hasCallback THEN <<"callback">> ELSE <<>>) \o <<"settle_req", "next">>

\* a variant in which the middleware's promise follows the settlement
SettleFailureReachesRequest_Awaited == TRUE

\* whether a rejection of the settlePayment promise reaches the middleware's
\* own promise: `.catch(console.error)` handles it, and the promise is not awaited
SettleFailureReachesRequest == FALSE

ServerInit ==
  /\ handler \in {NewHandler(c) : c \in HandlerConfigs}
  /\ mwConfig \in MwConfigs
  /\ pc = [r \in Reqs |-> "idle"]
  /\ req = [r \in Reqs |-> NoReq]
  /\ mwP = [r \in Reqs |-> NoPromise]
  /\ verifyOutcome = [r \in Reqs |-> NoOutcome]
  /\ verifyP = [r \in Reqs |-> NoPromise]
  /\ settleOutcome = [r \in Reqs |-> NoOutcome]
  /\ settleP = [r \in Reqs |-> NoPromise]
  /\ calls = [r \in Reqs |-> <<>>]
  /\ responses = [r \in Reqs |-> <<>>]
  /\ nextCalls = [r \in Reqs |-> 0]
  /\ cbCalls = [r \in Reqs |-> <<>>]
  /\ cbResult = [r \in Reqs |-> "none"]
  /\ trace = [r \in Reqs |-> <<>>]
  /\ log = [r \in Reqs |-> <<>>]

\* the middleware function is invoked on a request: it runs up to the 402
\* answer, or up to the await of verifyPayment (whose fetch is then sent)
MwInvoke(r) ==
  /\ pc[r] = "idle"
  /\ \E request \in Requests :
       LET payment      == extractPayment(request.headers)
           requirements == RequirementsOf(handler, mwConfig, request)
       IN  /\ req' = [req EXCEPT ![r] = request]
           /\ IF ~Truthy(payment)
              THEN /\ responses' = [responses EXCEPT
                                      ![r] = Append(@, create402Response(requirements))]
                   /\ trace' = [trace EXCEPT ![r] = Append(@, "respond")]
                   /\ mwP' = [mwP EXCEPT ![r] = Fulfilled(JUndef)]
                   /\ pc' = [pc EXCEPT ![r] = "done"]
                   /\ UNCHANGED <<calls, verifyP>>
              ELSE /\ calls' = [calls EXCEPT
                                  ![r] = Append(@, FacilitatorCall(handler, sVerifyPath,
                                                                   payment, requirements))]
                   /\ trace' = [trace EXCEPT ![r] = Append(@, "verify_req")]
                   /\ verifyP' = [verifyP EXCEPT ![r] = Pending]
                   /\ mwP' = [mwP EXCEPT ![r] = Pending]
                   /\ pc' = [pc EXCEPT ![r] = "awaitVerify"]
                   /\ UNCHANGED responses
  /\ UNCHANGED << handler, mwConfig, verifyOutcome, settleOutcome, settleP,
                  nextCalls, cbCalls, cbResult, log >>

\* a variant in which the invocations share one req binding, that of the
\* first invocation
OwnRequest_Shared(r) == req[1]

\* the req an invocation goes on with after its await: the parameter of its
\* own call of the arrow function
OwnRequest(r) == req[r]

\* the /verify call settles, verifyPayment returns and the middleware runs to
\* its end
MwVerifySettles(r) ==
  /\ pc[r] = "awaitVerify"
  /\ \E outcome \in VerifyOutcomes, behaviour \in CallbackBehaviours :
       LET payment      == extractPayment(OwnRequest(r).headers)
           requirements == RequirementsOf(handler, mwConfig, OwnRequest(r))
           isValid      == verifyPayment(outcome)
           steps        == AcceptSteps(mwConfig.onPaymentVerified, behaviour)
           has(e)       == \E i \in DOMAIN steps : steps[i] = e
           count(e)     == Cardinality({i \in DOMAIN steps : steps[i] = e})
       IN  /\ verifyOutcome' = [verifyOutcome EXCEPT ![r] = outcome]
           /\ verifyP' = [verifyP EXCEPT ![r] = Fulfilled(isValid)]
           /\ log' = [log EXCEPT ![r] = @ \o verifyPaymentLog(outcome)]
           /\ pc' = [pc EXCEPT ![r] = "done"]
           /\ IF ~isValid
              THEN /\ responses' = [responses EXCEPT
                        ![r] = Append(@, [status |-> 402, body |-> InvalidPaymentBody])]
                   /\ trace' = [trace EXCEPT ![r] = @ \o <<"verify_resp", "respond">>]
                   /\ mwP' = [mwP EXCEPT ![r] = Fulfilled(JUndef)]
                   /\ UNCHANGED <<calls, settleP, nextCalls, cbCalls, cbResult>>
              ELSE /\ trace' = [trace EXCEPT ![r] = @ \o <<"verify_resp">> \o steps]
                   /\ cbCalls' = [cbCalls EXCEPT
                        ![r] = IF has("callback") THEN Append(@, payment) ELSE @]
                   /\ cbResult' = [cbResult EXCEPT
                        ![r] = IF has("callback") THEN behaviour ELSE @]
                   /\ calls' = [calls EXCEPT
                        ![r] = @ \o [i \in 1..count("settle_req") |->
                                        FacilitatorCall(handler, sSettlePath,
                                                        payment, requirements)]]
                   /\ settleP' = [settleP EXCEPT
                        ![r] = IF has("settle_req") THEN Pending ELSE @]
                   /\ nextCalls' = [nextCalls EXCEPT
                        ![r] = @ + count("next")]
                   /\ mwP' = [mwP EXCEPT
                        ![r] = IF has("next") THEN Fulfilled(JUndef)
                               ELSE Rejected("CallbackError")]
                   /\ UNCHANGED responses
  /\ UNCHANGED << handler, mwConfig, req, settleOutcome >>

\* the /settle call settles: settlePayment's promise settles, and on a
\* rejection `.catch(console.error)` logs the error
MwSettleSettles(r) ==
  /\ settleP[r] = Pending
  /\ \E outcome \in SettleOutcomes :
       LET p == settlePayment(outcome) IN
       /\ settleOutcome' = [settleOutcome EXCEPT ![r] = outcome]
       /\ settleP' = [settleP EXCEPT ![r] = p]
       /\ log' = [log EXCEPT
            ![r] = IF p.state = "rejected" THEN @ \o <<p.error, p.error>> ELSE @]
       /\ mwP' = [mwP EXCEPT
            ![r] = IF p.state = "rejected" /\ SettleFailureReachesRequest
                   THEN Rejected(p.error) ELSE @]
  /\ UNCHANGED << handler, mwConfig, pc, req, verifyOutcome, verifyP, calls,
                  responses, nextCalls, cbCalls, cbResult, trace >>

ServerNext ==
  \E r \in Reqs : MwInvoke(r) \/ MwVerifySettles(r) \/ MwSettleSettles(r)

\* ------------------------------------------------------------------------
\* Inputs of the client side
\* ------------------------------------------------------------------------

\* the largest amount a 402 response asks for, and the largest ceiling
MaxAmount == 6

MaxCeiling == 3

\* 'https://api/data'
sApi == <<104, 116, 116, 112, 115, 58, 47, 47, 97, 112, 105, 47, 100, 97, 116, 97>>

\* 'application/json'
sJsonType == <<97, 112, 112, 108, 105, 99, 97, 116, 105, 111, 110, 47, 106, 115, 111, 110>>

\* 'abc'
sAbc == <<97, 98, 99>>

\* 'USDC'
sAsset == <<85, 83, 68, 67>>

\* '/' followed by U+65E5, a character outside Latin-1
sWideResource == <<47, 26085>>

\* 'Payment amount ' and ' exceeds maximum '
sPaymentAmount == <<80, 97, 121, 109, 101, 110, 116, 32, 97, 109, 111, 117, 110, 116, 32>>

sExceedsMaximum == <<32, 101, 120, 99, 101, 101, 100, 115, 32, 109, 97, 120, 105, 109, 117, 109, 32>>

\* '0x'
s0x == <<48, 120>>

\* config.maxPaymentAmount: absent, or a bigint
Ceilings == {JUndef} \cup {JBigInt(c) : c \in 0..MaxCeiling}

\* wallet.publicKey.toBase58() of the wallets of the model
WalletKeys == {sPayer, sOtherPayee}

ClientConfigs ==
  { [facilitatorUrl |-> sFacUrl, network |-> n,
     wallet |-> [publicKey |-> k], maxPaymentAmount |-> c]
      : c \in Ceilings, k \in WalletKeys, n \in {sNet, sNetOther} }

\* the init argument of fetch: undefined, or an object with some of method,
\* body and headers
InitUndef == [t |-> "undefined"]

InitObj(f) == [t |-> "object", f |-> f]

\* the input argument of fetch: a URL string, or a Request object
ClientInputs ==
  { [kind |-> "url", url |-> sApi],
    [kind |-> "Request", url |-> sApi, method |-> "GET",
     headers |-> HeadersObject([n \in {"content-type"} |-> TRaw(sJsonType)]),
     body |-> TEmpty] }

ClientInits ==
  { InitUndef,
    InitObj([method |-> "POST", body |-> TNull,
             headers |-> HeadersRecord([n \in {"X-PAYMENT"} |-> HStr(TInvalid)])]) }

\* paymentRequirements of a 402 body
ReqsWith(amount, resource) ==
  JObj([scheme |-> JStr(sExact), network |-> JStr(sNetOther), payTo |-> JStr(sTreasury),
        maxAmountRequired |-> amount, resource |-> resource])

WithAsset(reqs) ==
  JObj([k \in DOMAIN reqs.f \cup {"asset"} |->
          IF k = "asset" THEN JStr(sAsset) ELSE reqs.f[k]])

Without(reqs, key) == JObj([k \in DOMAIN reqs.f \ {key} |-> reqs.f[k]])

Body402(reqs) ==
  JSONstringify(JObj([error |-> JStr(sPaymentRequired), x402Version |-> JNum(1),
                      paymentRequirements |-> reqs]))

\* the bodies a 402 response can have
Bodies402 ==
  { Body402(ReqsWith(JStr(NatToStr(a)), JStr(sPaid))) : a \in 0..MaxAmount }
  \cup
  { Body402(WithAsset(ReqsWith(JStr(sOne), JStr(sPaid)))),
    Body402(ReqsWith(JStr(sOne), JStr(sWideResource))),
    Body402(ReqsWith(JStr(sAbc), JStr(sPaid))),
    Body402(ReqsWith(JNum(MaxAmount), JStr(sPaid))),
    Body402(Without(ReqsWith(JStr(sOne), JStr(sPaid)), "maxAmountRequired")),
    Body402(Without(ReqsWith(JStr(sOne), JStr(sPaid)), "payTo")),
    Body402(JUndef),
    TNull,
    TInvalid }

\* what a request of the client can come to
ClientOutcomes ==
  { NetError,
    [kind |-> "response", status |-> 200, body |-> TInvalid],
    [kind |-> "response", status |-> 500, body |-> TInvalid] }
  \cup { [kind |-> "response", status |-> 402, body |-> b] : b \in Bodies402 }

RetryOutcomes ==
  { NetError,
    [kind |-> "response", status |-> 200, body |-> TInvalid],
    [kind |-> "response", status |-> 402, body |-> Body402(ReqsWith(JStr(sOne), JStr(sPaid)))] }

\* Date.now() in milliseconds
ClockValues == {1500, 1999, 2000}

\* what generateNonce can return: '0x' and 64 hexadecimal digits
Nonces == { s0x \o [i \in 1..64 |-> d] : d \in {48, 102} }

\* ------------------------------------------------------------------------
\* createKovaClient
\* ------------------------------------------------------------------------

\* BigInt(v): [ok |-> TRUE, n |-> the integer], or the error it throws.  Of
\* the string syntax, decimal digits with an optional '-' are modelled; the
\* empty string is 0n.
BigIntOf(v) ==
  CASE v.t = "string" ->
         IF IsDigits(v.s) THEN [ok |-> TRUE, n |-> DigitsToNat(v.s)]
         ELSE IF Len(v.s) > 1 /\ v.s[1] = 45 /\ IsDigits(Tail(v.s))
              THEN [ok |-> TRUE, n |-> 0 - DigitsToNat(Tail(v.s))]
              ELSE [ok |-> FALSE, error |-> "SyntaxError"]
    [] v.t = "number"  -> [ok |-> TRUE, n |-> v.n]
    [] v.t = "bigint"  -> [ok |-> TRUE, n |-> v.n]
    [] v.t = "boolean" -> [ok |-> TRUE, n |-> IF v.b THEN 1 ELSE 0]
    [] v.t = "object"  -> [ok |-> FALSE, error |-> "SyntaxError"]
    [] OTHER           -> [ok |-> FALSE, error |-> "TypeError"]

\* `${v}` for the values interpolated in the source
TemplateStr(v) ==
  CASE v.t = "string" -> v.s
    [] v.t = "number" -> NatToStr(v.n)
    [] v.t = "bigint" -> NatToStr(v.n)
    [] OTHER          -> <<>>

\* a variant of the status test that takes every error status for a 402
IsPaymentRequired_AnyError(status) == status >= 400

\* response.status === 402
IsPaymentRequired(status) == status = 402

\* the comparison of the ceiling check
ExceedsCeiling(amount, ceiling) == amount > ceiling

\* the ceiling check: "pass", "exceeds", or the error evaluating it throws
CeilingCheck(maxPaymentAmount, paymentRequirements) ==
  IF ~Truthy(maxPaymentAmount) THEN "pass"
  ELSE IF ~CanGet(paymentRequirements) THEN "TypeError"
  ELSE LET amount == BigIntOf(Get(paymentRequirements, "maxAmountRequired")) IN
       IF ~amount.ok THEN amount.error
       ELSE IF ExceedsCeiling(amount.n, maxPaymentAmount.n) THEN "exceeds"
       ELSE "pass"

\* the Error thrown when the ceiling is exceeded
CeilingError(maxPaymentAmount, paymentRequirements) ==
  [name    |-> "Error",
   message |-> sPaymentAmount
                 \o TemplateStr(Get(paymentRequirements, "maxAmountRequired"))
                 \o sExceedsMaximum \o TemplateStr(maxPaymentAmount)]

PlainError(name) == [name |-> name, message |-> <<>>]

\* Math.floor(ms / 1000)
Seconds(ms) == ms \div 1000

\* the validity window, in seconds
ValidityWindow == 3600

\* a variant of createPaymentPayload that pays the amount to the payer
createPaymentPayload_PayToSelf(wallet, requirements, network, now1, now2, nonce) ==
  JObj([x402Version |-> JNum(1),
        scheme      |-> Get(requirements, "scheme"),
        network     |-> JStr(network),
        payload     |->
          JObj([from        |-> JStr(wallet.publicKey),
                to          |-> JStr(wallet.publicKey),
                value       |-> Get(requirements, "maxAmountRequired"),
                validAfter  |-> JStr(NatToStr(Seconds(now1))),
                validBefore |-> JStr(NatToStr(Seconds(now2) + ValidityWindow)),
                nonce       |-> JStr(nonce),
                v           |-> JStr(s0x \o <<48, 48>>),
                r           |-> JStr(s0x \o [i \in 1..64 |-> 48]),
                s           |-> JStr(s0x \o [i \in 1..64 |-> 48])])])

\* createPaymentPayload, for requirements that are not null or undefined; now1
\* and now2 are the two readings of Date.now(), nonce the result of generateNonce
createPaymentPayload(wallet, requirements, network, now1, now2, nonce) ==
  JObj([x402Version |-> JNum(1),
        scheme      |-> Get(requirements, "scheme"),
        network     |-> JStr(network),
        payload     |->
          JObj([from        |-> JStr(wallet.publicKey),
                to          |-> Get(requirements, "payTo"),
                value       |-> Get(requirements, "maxAmountRequired"),
                validAfter  |-> JStr(NatToStr(Seconds(now1))),
                validBefore |-> JStr(NatToStr(Seconds(now2) + ValidityWindow)),
                nonce       |-> JStr(nonce),
                v           |-> JStr(s0x \o <<48, 48>>),
                r           |-> JStr(s0x \o [i \in 1..64 |-> 48]),
                s           |-> JStr(s0x \o [i \in 1..64 |-> 48])])])

\* the wallet members createPaymentPayload uses
WalletUse == <<"publicKey.toBase58">>

\* new Headers(init?.headers): names are stored in lower case
NewHeaders(init) ==
  IF init.t = "object" /\ "headers" \in DOMAIN init.f
  THEN LET src == init.f["headers"].h
           val(x) == IF init.f["headers"].shape = "Headers" THEN x ELSE x.s
       IN  HeadersObject([n \in {LowerName(m) : m \in DOMAIN src} |->
                            val(src[CHOOSE m \in DOMAIN src : LowerName(m) = n])])
  ELSE HeadersObject([n \in {} |-> TEmpty])

\* headers.set(name, value), for a value that is a ByteString
HeadersSet(headers, name, value) ==
  HeadersObject([n \in DOMAIN headers.h \cup {LowerName(name)} |->
                   IF n = LowerName(name) THEN value ELSE headers.h[n]])

\* the envelope the client puts into the X-Payment header
ClientEnvelope(paymentPayload, paymentRequirements) ==
  JObj([x402Version         |-> JNum(1),
        paymentPayload      |-> paymentPayload,
        paymentRequirements |-> paymentRequirements])

\* { ...init, headers: headersWithPayment }
RetryInit(init, headersWithPayment) ==
  LET f == IF init.t = "object" THEN init.f ELSE [k \in {} |-> TEmpty] IN
  InitObj([k \in DOMAIN f \cup {"headers"} |->
             IF k = "headers" THEN headersWithPayment ELSE f[k]])

\* the part of fetch between the first response and the retry, for a 402
\* response: [error |-> what it throws] or [retry |-> the init of the retry,
\* wallet |-> the wallet members used]
HandlePaymentRequired(config, init, bodyText, now1, now2, nonce) ==
  IF ~IsJSON(bodyText) THEN [error |-> PlainError("SyntaxError"), wallet |-> <<>>, clock |-> <<>>]
  ELSE
    LET body == JSONparse(bodyText) IN
    IF ~CanGet(body) THEN [error |-> PlainError("TypeError"), wallet |-> <<>>, clock |-> <<>>]
    ELSE
      LET paymentRequirements == Get(body, "paymentRequirements")
          check == CeilingCheck(config.maxPaymentAmount, paymentRequirements)
      IN
      IF check = "exceeds"
      THEN [error  |-> CeilingError(config.maxPaymentAmount, paymentRequirements),
            wallet |-> <<>>, clock |-> <<>>]
      ELSE IF check # "pass" THEN [error |-> PlainError(check), wallet |-> <<>>, clock |-> <<>>]
      ELSE IF ~CanGet(paymentRequirements)
      THEN [error |-> PlainError("TypeError"), wallet |-> WalletUse, clock |-> <<>>]
      ELSE
        LET paymentPayload == createPaymentPayload(config.wallet, paymentRequirements,
                                                   config.network, now1, now2, nonce)
            value == JSONstringify(ClientEnvelope(paymentPayload, paymentRequirements))
        IN
        IF ~IsByteString(value)
        THEN [error |-> PlainError("TypeError"), wallet |-> WalletUse,
              clock |-> <<now1, now2>>]
        ELSE [retry  |-> RetryInit(init, HeadersSet(NewHeaders(init), "X-Payment", value)),
              wallet |-> WalletUse, clock |-> <<now1, now2>>]

\* the request the global fetch(input, init) sends: a member of init
\* replaces what a Request passed as input carries, its headers as a whole
EffectiveRequest(call) ==
  LET has(k) == call.init.t = "object" /\ k \in DOMAIN call.init.f
      isRequest == call.input.kind = "Request"
  IN
  [url     |-> call.input.url,
   method  |-> IF has("method") THEN call.init.f["method"]
               ELSE IF isRequest THEN call.input.method ELSE "GET",
   body    |-> IF has("body") THEN call.init.f["body"]
               ELSE IF isRequest THEN call.input.body ELSE TEmpty,
   headers |-> IF has("headers") THEN NewHeaders(call.init).h
               ELSE IF isRequest THEN call.input.headers.h
               ELSE [n \in {} |-> TEmpty]]

NoResponse == [id |-> 0, status |-> 0, body |-> TEmpty]

VARIABLES
  clientConfig,   \* the config the client was created with
  cpc,            \* "idle", "await1", "await2" or "done"
  cInput,         \* the input argument of fetch
  cInit,          \* the init argument of fetch
  netCalls,       \* the calls of the global fetch, in order
  firstResponse,  \* the response to the first call
  retryResponse,  \* the response to the retry
  clientP,        \* the promise fetch returned
  walletCalls,    \* the wallet members used
  clockReads      \* the readings of Date.now(), in order

clientVars ==
  << clientConfig, cpc, cInput, cInit, netCalls, firstResponse, retryResponse,
     clientP, walletCalls, clockReads >>

ClientInit ==
  /\ clientConfig \in ClientConfigs
  /\ cpc = "idle"
  /\ cInput = [kind |-> "none"]
  /\ cInit = InitUndef
  /\ netCalls = <<>>
  /\ firstResponse = NoResponse
  /\ retryResponse = NoResponse
  /\ clientP = NoPromise
  /\ walletCalls = <<>>
  /\ clockReads = <<>>

\* client.fetch(input, init) is called: the first request is sent
ClientFetch ==
  /\ cpc = "idle"
  /\ \E input \in ClientInputs, init \in ClientInits :
       /\ cInput' = input
       /\ cInit' = init
       /\ netCalls' = Append(netCalls, [input |-> input, init |-> init])
  /\ clientP' = Pending
  /\ cpc' = "await1"
  /\ UNCHANGED << clientConfig, firstResponse, retryResponse, walletCalls, clockReads >>

\* a variant that wraps a failure of the network in an Error of its own
FetchFailure_Wrapped(outcome) == Rejected(PlainError("Error"))

\* `await fetch(...)` outside any try: the rejection of the global fetch is
\* the rejection of the client's fetch
FetchFailure(outcome) == Rejected(PlainError(outcome.error))

\* the first request settles; fetch runs to its return, to a throw, or to
\* the await of the retry
ClientFirstSettles ==
  /\ cpc = "await1"
  /\ \E outcome \in ClientOutcomes, now1 \in ClockValues, now2 \in ClockValues,
        nonce \in Nonces :
       /\ now1 <= now2
       /\ IF outcome.kind = "error"
          THEN /\ clientP' = FetchFailure(outcome)
               /\ cpc' = "done"
               /\ UNCHANGED << netCalls, firstResponse, walletCalls, clockReads >>
          ELSE LET response == [id |-> 1, status |-> outcome.status,
                                body |-> outcome.body]
               IN
               /\ firstResponse' = response
               /\ IF ~IsPaymentRequired(response.status)
                  THEN /\ clientP' = Fulfilled(response)
                       /\ cpc' = "done"
                       /\ UNCHANGED << netCalls, walletCalls, clockReads >>
                  ELSE LET h == HandlePaymentRequired(clientConfig, cInit, response.body,
                                                      now1, now2, nonce)
                       IN
                       /\ walletCalls' = walletCalls \o h.wallet
                       /\ clockReads' = clockReads \o h.clock
                       /\ IF "error" \in DOMAIN h
                          THEN /\ clientP' = Rejected(h.error)
                               /\ cpc' = "done"
                               /\ UNCHANGED netCalls
                          ELSE /\ netCalls' = Append(netCalls,
                                                [input |-> cInput, init |-> h.retry])
                               /\ cpc' = "await2"
                               /\ UNCHANGED clientP
  /\ UNCHANGED << clientConfig, cInput, cInit, retryResponse >>

\* a variant that does not hand a second 402 to the caller
RetryResult_Reject402(response) ==
  IF response.status = 402 THEN Rejected(PlainError("Error")) ELSE Fulfilled(response)

\* `return response` after the retry: whatever the retry's status is
RetryResult(response) == Fulfilled(response)

\* the retry settles and fetch returns its response, or throws its error
ClientRetrySettles ==
  /\ cpc = "await2"
  /\ \E outcome \in RetryOutcomes :
       IF outcome.kind = "error"
       THEN /\ clientP' = FetchFailure(outcome)
            /\ UNCHANGED retryResponse
       ELSE LET response == [id |-> 2, status |-> outcome.status, body |-> outcome.body]
            IN  /\ retryResponse' = response
                /\ clientP' = RetryResult(response)
  /\ cpc' = "done"
  /\ UNCHANGED << clientConfig, cInput, cInit, netCalls, firstResponse, walletCalls,
                  clockReads >>

ClientNext == ClientFetch \/ ClientFirstSettles \/ ClientRetrySettles

\* ------------------------------------------------------------------------
\* Direct calls: extractPayment, createPaymentRequirements, getHealth and
\* getSupported
\* ------------------------------------------------------------------------

\* '/health' and '/supported'
sHealthPath == <<47, 104, 101, 97, 108, 116, 104>>

sSupportedPath == <<47, 115, 117, 112, 112, 111, 114, 116, 101, 100>>

\* 'healthy', '1.0.0', 'verify'
sHealthy == <<104, 101, 97, 108, 116, 104, 121>>

sVersion == <<49, 46, 48, 46, 48>>

sVerifyCap == <<118, 101, 114, 105, 102, 121>>

\* an envelope whose paymentPayload is null
NullPayloadText == JSONstringify(Envelope(JNull, SampleReqs))

\* the strings a payment header can hold
HeaderTexts ==
  { EnvText, ForgedEnvText, NoPayloadText, NoReqsText, NullPayloadText,
    TNull, TNum(sFive), TInvalid, TEmpty }

\* the capitalisations of the payment header's name
PaymentHeaderNames == HeaderNames \ {"content-type"}

\* new Headers({[name]: text})
HeadersWith(name, text) == HeadersObject([n \in {LowerName(name)} |-> text])

\* the headers extractPayment is called with: [name |-> the name the value
\* is stored under, value |-> the value, headers |-> the argument]
ExtractInputs ==
  { [name |-> n, value |-> HStr(t), headers |-> OneHeader(n, HStr(t))]
      : n \in PaymentHeaderNames, t \in HeaderTexts }
  \cup
  { [name |-> n, value |-> HStr(t), headers |-> HeadersWith(n, t)]
      : n \in PaymentHeaderNames, t \in HeaderTexts \ {TEmpty} }
  \cup
  { [name |-> n, value |-> HArr(a), headers |-> OneHeader(n, HArr(a))]
      : n \in PaymentHeaderNames,
        a \in { <<>>, <<EnvText>>, <<EnvText, TInvalid>>, <<TInvalid, EnvText>> } }
  \cup
  { [name |-> "x-payment", value |-> HUndef, headers |-> OneHeader("x-payment", HUndef)],
    [name |-> "x-payment", value |-> HUndef, headers |-> NoHeaders],
    [name |-> "x-payment", value |-> HUndef,
       headers |-> OneHeader("content-type", HStr(TRaw(sJsonType)))],
    [name |-> "X-Payment", value |-> HStr(EnvText),
       headers |-> HeadersRecord([n \in {"x-payment", "X-Payment"} |->
                     IF n = "x-payment" THEN HStr(TEmpty) ELSE HStr(EnvText)])],
    [name |-> "x-payment", value |-> HArr(<<>>),
       headers |-> HeadersRecord([n \in {"x-payment", "X-Payment"} |->
                     IF n = "x-payment" THEN HArr(<<>>) ELSE HStr(EnvText)])] }

\* the config createPaymentRequirements is called with
RequirementsConfigs ==
  { [amount |-> JStr(a), resource |-> JStr(res), asset |-> as]
      : a \in {sFive, sOne, sAbc}, res \in {sPaid, sUrl},
        as \in {JUndef, JStr(<<>>), JStr(sAsset)} }

\* the bodies the facilitator's GET endpoints answer with
HealthValue ==
  JObj([status |-> JStr(sHealthy), uptime |-> JNum(12345),
        version |-> JStr(sVersion), network |-> JStr(sNet)])

SupportedValue ==
  JObj([networks       |-> JArr(<< JObj([network |-> JStr(sNet)]) >>),
        paymentSchemes |-> JArr(<< JStr(sExact) >>),
        assets         |-> JArr(<< >>),
        capabilities   |-> JArr(<< JStr(sVerifyCap), JStr(sSettlePath) >>)])

GetOutcomes ==
  { NetError, Responded(TInvalid), Responded(TNull),
    Responded(JSONstringify(HealthValue)), Responded(JSONstringify(SupportedValue)) }

\* the configs of the handler createPaymentRequirements is called on
ApiHandlerConfigs ==
  { [facilitatorUrl |-> sFacUrl, network |-> n, treasuryAddress |-> a]
      : n \in {sNet, sNetOther}, a \in {sTreasury, sOtherPayee} }

\* the direct calls of the model
ApiCalls ==
  { [fn |-> "extractPayment", input |-> i] : i \in ExtractInputs }
  \cup
  { [fn |-> "createPaymentRequirements", handlerConfig |-> hc, config |-> c]
      : hc \in ApiHandlerConfigs, c \in RequirementsConfigs }
  \cup
  { [fn |-> f, facilitatorUrl |-> u]
      : f \in {"getHealth", "getSupported"}, u \in {sFacUrl, sFacUrlSlash} }

\* a variant in which both functions ask for '/health'
GetPath_Health(fn) == sHealthPath

\* the path getHealth and getSupported append to facilitatorUrl
GetPath(fn) == IF fn = "getHealth" THEN sHealthPath ELSE sSupportedPath

\* fetch(`${facilitatorUrl}/health`): one argument, no init
GetCall(facilitatorUrl, fn) ==
  [input |-> [kind |-> "url", url |-> facilitatorUrl \o GetPath(fn)],
   init  |-> InitUndef]

\* `return response.json()`: the state the promise of getHealth and
\* getSupported settles in
GetResult(outcome) ==
  IF FetchJsonError(outcome) # "none" THEN Rejected(FetchJsonError(outcome))
  ELSE Fulfilled(JSONparse(outcome.body))

VARIABLES
  apiCall,     \* the function called and its arguments
  apiPc,       \* "idle", "pending" or "done"
  apiNet,      \* the calls of the global fetch the function made, in order
  apiOutcome,  \* what the network call came to
  apiResult    \* what the function returned: a promise's state

apiVars == << apiCall, apiPc, apiNet, apiOutcome, apiResult >>

ApiInit ==
  /\ apiCall \in ApiCalls
  /\ apiPc = "idle"
  /\ apiNet = <<>>
  /\ apiOutcome = NoOutcome
  /\ apiResult = NoPromise

\* no direct call is made
ApiIdle ==
  /\ apiCall = [fn |-> "none"]
  /\ apiPc = "done"
  /\ apiNet = <<>>
  /\ apiOutcome = NoOutcome
  /\ apiResult = NoPromise

\* handler.extractPayment(headers) is called and returns
ApiExtractPayment ==
  /\ apiPc = "idle"
  /\ apiCall.fn = "extractPayment"
  /\ apiResult' = Fulfilled(extractPayment(apiCall.input.headers))
  /\ apiPc' = "done"
  /\ UNCHANGED << apiCall, apiNet, apiOutcome >>

\* handler.createPaymentRequirements(config) is called; its promise is
\* fulfilled without an await
ApiCreateRequirements ==
  /\ apiPc = "idle"
  /\ apiCall.fn = "createPaymentRequirements"
  /\ apiResult' = Fulfilled(createPaymentRequirements(NewHandler(apiCall.handlerConfig),
                                                      apiCall.config))
  /\ apiPc' = "done"
  /\ UNCHANGED << apiCall, apiNet, apiOutcome >>

\* client.getHealth() or client.getSupported() is called: the GET is sent
ApiGet ==
  /\ apiPc = "idle"
  /\ apiCall.fn \in {"getHealth", "getSupported"}
  /\ apiNet' = Append(apiNet, GetCall(apiCall.facilitatorUrl, apiCall.fn))
  /\ apiResult' = Pending
  /\ apiPc' = "pending"
  /\ UNCHANGED << apiCall, apiOutcome >>

\* the GET settles and the function's promise with it
ApiGetSettles ==
  /\ apiPc = "pending"
  /\ \E outcome \in GetOutcomes :
       /\ apiOutcome' = outcome
       /\ apiResult' = GetResult(outcome)
  /\ apiPc' = "done"
  /\ UNCHANGED << apiCall, apiNet >>

ApiNext == ApiExtractPayment \/ ApiCreateRequirements \/ ApiGet \/ ApiGetSettles

\* ------------------------------------------------------------------------
\* Specifications
\* ------------------------------------------------------------------------

vars == << serverVars, clientVars, apiVars >>

\* the client before any call of fetch
ClientIdle ==
  /\ clientConfig = [facilitatorUrl |-> sFacUrl, network |-> sNet,
                     wallet |-> [publicKey |-> sPayer], maxPaymentAmount |-> JUndef]
  /\ cpc = "idle"
  /\ cInput = [kind |-> "none"]
  /\ cInit = InitUndef
  /\ netCalls = <<>>
  /\ firstResponse = NoResponse
  /\ retryResponse = NoResponse
  /\ clientP = NoPromise
  /\ walletCalls = <<>>
  /\ clockReads = <<>>

\* the server before any request
ServerIdle ==
  /\ handler = NewHandler([facilitatorUrl |-> sFacUrl, network |-> sNet,
                           treasuryAddress |-> sTreasury])
  /\ mwConfig = [amount |-> JStr(sFive), resource |-> JUndef,
                 onPaymentVerified |-> FALSE]
  /\ pc = [r \in Reqs |-> "done"]
  /\ req = [r \in Reqs |-> NoReq]
  /\ mwP = [r \in Reqs |-> NoPromise]
  /\ verifyOutcome = [r \in Reqs |-> NoOutcome]
  /\ verifyP = [r \in Reqs |-> NoPromise]
  /\ settleOutcome = [r \in Reqs |-> NoOutcome]
  /\ settleP = [r \in Reqs |-> NoPromise]
  /\ calls = [r \in Reqs |-> <<>>]
  /\ responses = [r \in Reqs |-> <<>>]
  /\ nextCalls = [r \in Reqs |-> 0]
  /\ cbCalls = [r \in Reqs |-> <<>>]
  /\ cbResult = [r \in Reqs |-> "none"]
  /\ trace = [r \in Reqs |-> <<>>]
  /\ log = [r \in Reqs |-> <<>>]

\* the middleware handling NumReqs requests
Init == ServerInit /\ ClientIdle /\ ApiIdle

Next == ServerNext /\ UNCHANGED << clientVars, apiVars >>

Spec == Init /\ [][Next]_vars

\* the middleware under the assumption that every /verify call eventually
\* returns or fails; nothing is assumed of the /settle calls
SpecLive ==
  /\ Init
  /\ [][Next]_vars
  /\ \A r \in Reqs : WF_vars(MwVerifySettles(r) /\ UNCHANGED << clientVars, apiVars >>)

\* one call of the client's fetch
InitClient == ClientInit /\ ServerIdle /\ ApiIdle

NextClient == ClientNext /\ UNCHANGED << serverVars, apiVars >>

SpecClient == InitClient /\ [][NextClient]_vars

\* one direct call of a function of the handler or of the client
InitApi == ApiInit /\ ServerIdle /\ ClientIdle

NextApi == ApiNext /\ UNCHANGED << serverVars, clientVars >>

SpecApi == InitApi /\ [][NextApi]_vars

\* ------------------------------------------------------------------------
\* Properties of the middleware (specification Spec)
\* ------------------------------------------------------------------------

\* the facilitator answered with a JSON object whose isValid member is the
\* literal true
SaysValid(outcome) ==
  /\ outcome.kind = "response"
  /\ outcome.body.k = "object"
  /\ \E i \in DOMAIN outcome.body.m : outcome.body.m[i] = <<"isValid", TBool(TRUE)>>

\* the requests of invocation r that went to the facilitator path `path`
CallsTo(r, path) ==
  { i \in DOMAIN calls[r] : calls[r][i].url = handler.facilitatorUrl \o path }

\* C1: next() is called only for a request whose own /verify response had
\* isValid exactly true; in every other outcome it is not called at all.
C1_AccessGate ==
  \A r \in Reqs :
    /\ nextCalls[r] <= 1
    /\ nextCalls[r] = 1 => /\ CallsTo(r, sVerifyPath) # {}
                           /\ SaysValid(verifyOutcome[r])
    /\ ~SaysValid(verifyOutcome[r]) => nextCalls[r] = 0

C1_Witness ==
  \E r \in Reqs : nextCalls[r] = 1 /\ SaysValid(verifyOutcome[r])

\* C2: a request without an extractable payment gets exactly one response,
\* status 402 with body {error: 'Payment Required', x402Version: 1,
\* paymentRequirements}, the requirements being built from the configured
\* amount and the resource; next is not called and the facilitator is not
\* called.
C2_NoPaymentChallenge ==
  \A r \in Reqs :
    (pc[r] # "idle" /\ extractPayment(req[r].headers) = JNull) =>
      LET resource ==
            IF mwConfig.resource # JUndef THEN mwConfig.resource
            ELSE IF req[r].originalUrl # JUndef THEN req[r].originalUrl
            ELSE IF req[r].url # JUndef THEN req[r].url
            ELSE JStr(<<47>>)
          expected ==
            JObj([error |-> JStr(sPaymentRequired),
                  x402Version |-> JNum(1),
                  paymentRequirements |->
                    JObj([scheme |-> JStr(sExact),
                          network |-> JStr(handler.network),
                          payTo |-> JStr(handler.treasuryAddress),
                          maxAmountRequired |-> mwConfig.amount,
                          resource |-> resource])])
      IN  /\ pc[r] = "done"
          /\ responses[r] = << [status |-> 402, body |-> expected] >>
          /\ nextCalls[r] = 0
          /\ calls[r] = <<>>
          /\ verifyP[r] = NoPromise /\ settleP[r] = NoPromise

C2_Witness ==
  \E r \in Reqs :
    /\ pc[r] = "done"
    /\ extractPayment(req[r].headers) = JNull
    /\ Len(responses[r]) = 1
    /\ req[r].url = JUndef

\* C3: when the header parses and verifyPayment returns false, exactly one
\* response is written, status 402 with the body {error: 'Invalid payment'}
\* and nothing else in it; next and onPaymentVerified are not called and no
\* /settle request is sent.
C3_InvalidPayment ==
  \A r \in Reqs :
    (extractPayment(req[r].headers) # JNull /\ verifyP[r] = Fulfilled(FALSE)) =>
      /\ Len(responses[r]) = 1
      /\ responses[r][1].status = 402
      /\ DOMAIN responses[r][1].body.f = {"error"}
      /\ responses[r][1].body.f["error"] = JStr(sInvalidPayment)
      /\ responses[r][1] # create402Response(RequirementsOf(handler, mwConfig, req[r]))
      /\ nextCalls[r] = 0
      /\ cbCalls[r] = <<>>
      /\ CallsTo(r, sSettlePath) = {}
      /\ settleP[r] = NoPromise

C3_Witness ==
  \E r \in Reqs :
    /\ verifyP[r] = Fulfilled(FALSE)
    /\ verifyOutcome[r].kind = "response"
    /\ Len(responses[r]) = 1

\* C4: when the header passes verification, next is called exactly once,
\* exactly one /settle request is sent, no 402 is written, and next is called
\* while the /settle call is still pending.
C4_AcceptedPayment ==
  \A r \in Reqs :
    verifyP[r] = Fulfilled(TRUE) =>
      /\ nextCalls[r] = 1
      /\ Cardinality(CallsTo(r, sSettlePath)) = 1
      /\ responses[r] = <<>>
      /\ settleP[r] # NoPromise

\* C5: verifyPayment is fail-closed.  Its promise is never rejected; it is
\* fulfilled with true exactly when the facilitator's response is a JSON
\* object with isValid the literal true, and with false when isValid is
\* false, absent or of another type, when the call fails and when the body
\* does not parse.
C5_VerifyFailClosed ==
  \A r \in Reqs :
    /\ verifyP[r].state # "rejected"
    /\ verifyOutcome[r] # NoOutcome =>
         /\ verifyP[r].state = "fulfilled"
         /\ verifyP[r].value = SaysValid(verifyOutcome[r])

C5_Witness ==
  \E r \in Reqs :
    /\ verifyP[r] = Fulfilled(FALSE)
    /\ verifyOutcome[r] \in {NetError, Responded(TInvalid)}

\* C6: settlePayment does not swallow a failure.  When the POST to /settle
\* fails its promise is rejected with that error, when the body does not
\* parse it is rejected with the parse error, and otherwise it is fulfilled
\* with the parsed response as it is, whatever isValid says.
C6_SettlePropagates ==
  \A r \in Reqs :
    settleOutcome[r] # NoOutcome =>
      IF settleOutcome[r].kind = "error"
      THEN settleP[r] = Rejected(settleOutcome[r].error)
      ELSE IF settleOutcome[r].body.k \in {"empty", "invalid", "raw"}
      THEN settleP[r] = Rejected("SyntaxError")
      ELSE /\ settleP[r].state = "fulfilled"
           /\ JSONstringify(settleP[r].value) = settleOutcome[r].body

C6_Witness ==
  \E r \in Reqs : settleP[r] = Rejected("NetworkError")

\* C7: a failure of the settlement the middleware started stays out of the
\* request path: next has been called exactly once, no 402 is written and
\* the middleware's promise is fulfilled, not rejected.
C7_SettleFailureDetached ==
  \A r \in Reqs :
    settleP[r].state = "rejected" =>
      /\ nextCalls[r] = 1
      /\ responses[r] = <<>>
      /\ mwP[r] = Fulfilled(JUndef)
      /\ pc[r] = "done"

C7_Witness ==
  \E r \in Reqs : settleP[r].state = "rejected" /\ nextCalls[r] = 1 /\ log[r] # <<>>

\* ------------------------------------------------------------------------
\* Properties of the client's fetch (specification SpecClient)
\* ------------------------------------------------------------------------

\* fetch has dealt with the first response
FirstHandled == cpc \in {"await2", "done"} /\ firstResponse.id = 1

\* the paymentRequirements of the first response's body, when that body is a
\* JSON object that has them
ReceivedRequirements == Get(JSONparse(firstResponse.body), "paymentRequirements")

HasRequirements ==
  /\ firstResponse.status = 402
  /\ IsJSON(firstResponse.body)
  /\ ReceivedRequirements.t = "object"

\* maxAmountRequired of the first response read as an integer
AmountReadable ==
  /\ HasRequirements
  /\ BigIntOf(Get(ReceivedRequirements, "maxAmountRequired")).ok

ReceivedAmount == BigIntOf(Get(ReceivedRequirements, "maxAmountRequired")).n

CeilingConfigured == clientConfig.maxPaymentAmount.t = "bigint"

\* C8: when the first response is not a 402, fetch has made exactly one
\* network call, with the caller's input and init as given, has used no
\* wallet member, and returns that response as it is.
C8_PassThrough ==
  (firstResponse.id = 1 /\ firstResponse.status # 402) =>
    /\ netCalls = << [input |-> cInput, init |-> cInit] >>
    /\ walletCalls = <<>>
    /\ clientP = Fulfilled(firstResponse)
    /\ cpc = "done"

C8_Witness ==
  /\ firstResponse.id = 1
  /\ firstResponse.status = 500
  /\ clientP = Fulfilled(firstResponse)

\* C9: with a ceiling c >= 0 configured, a 402 whose maxAmountRequired read
\* as an integer is greater than c makes fetch reject with the error that
\* names the amount and c, and no retry is sent.
C9_CeilingEnforced ==
  (FirstHandled /\ CeilingConfigured /\ clientConfig.maxPaymentAmount.n >= 0
     /\ AmountReadable /\ ReceivedAmount > clientConfig.maxPaymentAmount.n) =>
    /\ clientP.state = "rejected"
    /\ clientP.error.message =
         sPaymentAmount \o TemplateStr(Get(ReceivedRequirements, "maxAmountRequired"))
           \o sExceedsMaximum \o NatToStr(clientConfig.maxPaymentAmount.n)
    /\ Len(netCalls) = 1

\* the retry carries an X-Payment header from which the server's
\* extractPayment gets an envelope of version 1 whose paymentRequirements are
\* the received ones, field for field
RetryCarriesEnvelope ==
  /\ Len(netCalls) = 2
  /\ "headers" \in DOMAIN netCalls[2].init.f
  /\ LET envelope == extractPayment(netCalls[2].init.f["headers"]) IN
     /\ envelope # JNull
     /\ Get(envelope, "x402Version") = JNum(1)
     /\ Get(envelope, "paymentRequirements") = ReceivedRequirements

\* C10: a 402 whose maxAmountRequired is at or below the ceiling, or any 402
\* with requirements when no ceiling is configured, is answered with exactly
\* one retry that carries the envelope.
C10_EnvelopeRoundTrip ==
  (FirstHandled /\ HasRequirements
     /\ \/ ~CeilingConfigured
        \/ AmountReadable /\ ReceivedAmount <= clientConfig.maxPaymentAmount.n) =>
    RetryCarriesEnvelope


\* C11: fetch makes one or two network calls; the second is made only after
\* the first response has arrived with status 402; a retried response that
\* is itself a 402 is returned as it is, and no third call follows.
C11_SingleRetry ==
  /\ Len(netCalls) <= 2
  /\ cpc # "idle" => Len(netCalls) >= 1
  /\ Len(netCalls) = 2 => firstResponse.id = 1 /\ firstResponse.status = 402
  /\ cpc = "await1" => Len(netCalls) = 1
  /\ (retryResponse.id = 2 /\ retryResponse.status = 402) =>
       /\ clientP = Fulfilled(retryResponse)
       /\ Len(netCalls) = 2
       /\ cpc = "done"

C11_Witness ==
  /\ retryResponse.id = 2
  /\ retryResponse.status = 402
  /\ clientP = Fulfilled(retryResponse)


\* extractPayment was called and has returned
ExtractCalled == apiCall.fn = "extractPayment" /\ apiPc = "done"

\* the string a header value presents: the string itself, the first element
\* of a list, nothing (TEmpty) for an absent value or an empty list
PresentedText(value) ==
  CASE value.t = "string" -> value.s
    [] value.t = "array" /\ Len(value.a) > 0 -> value.a[1]
    [] OTHER -> TEmpty

\* a parsed value has no field k, or has null there
Lacks(parsed, k) == k \notin DOMAIN parsed.f \/ parsed.f[k] = JNull

\* what extractPayment is to return for the value stored under the payment
\* header's name
ExpectedExtract(value) ==
  LET text == PresentedText(value) IN
  IF ~IsJSON(text) THEN JNull
  ELSE LET parsed == JSONparse(text) IN
       IF parsed.t # "object" THEN JNull
       ELSE IF Lacks(parsed, "paymentPayload") \/ Lacks(parsed, "paymentRequirements")
            THEN JNull
            ELSE parsed

\* C12: extractPayment never throws; it returns null when the payment header
\* is missing, is not valid JSON, parses to a non-object, lacks paymentPayload
\* or paymentRequirements, or is an empty list; in every other case it
\* returns the parsed envelope, of the first element when the value is a list.
C12_ExtractContract ==
  ExtractCalled => apiResult = Fulfilled(ExpectedExtract(apiCall.input.value))

\* C12 holds for every header stored under a name the lookup tries
C12_ExtractContract_KnownNames ==
  (ExtractCalled /\ ~(apiCall.input.headers.shape = "record"
                      /\ apiCall.input.name = "X-PAYMENT"))
    => apiResult = Fulfilled(ExpectedExtract(apiCall.input.value))

\* a well-formed envelope is presented under some capitalisation of the name
EnvelopePresented ==
  /\ ExtractCalled
  /\ PresentedText(apiCall.input.value) \in {EnvText, ForgedEnvText}

\* C13: for a Headers object and for a plain record alike, a well-formed
\* envelope stored under any capitalisation of 'x-payment' is returned
\* rather than null.
C13_CaseInsensitiveName ==
  EnvelopePresented =>
    /\ apiResult # Fulfilled(JNull)
    /\ apiResult = Fulfilled(JSONparse(PresentedText(apiCall.input.value)))

\* C13 holds for a Headers object
C13_HeadersObject ==
  (EnvelopePresented /\ apiCall.input.headers.shape = "Headers") =>
    apiResult = Fulfilled(JSONparse(PresentedText(apiCall.input.value)))


\* the retry was sent
RetrySent == Len(netCalls) = 2

\* C14: the retry is the original request plus the payment header: the same
\* input, method and body, every header of the original request kept, whether
\* it came from init or from a Request passed as input, and only X-Payment
\* added or replaced.
C14_RetryPreservesRequest ==
  RetrySent =>
    LET original == EffectiveRequest(netCalls[1])
        retry    == EffectiveRequest(netCalls[2])
    IN
    /\ netCalls[2].input = netCalls[1].input
    /\ retry.url = original.url
    /\ retry.method = original.method
    /\ retry.body = original.body
    /\ DOMAIN retry.headers = DOMAIN original.headers \cup {"x-payment"}
    /\ \A n \in DOMAIN original.headers \ {"x-payment"} :
         retry.headers[n] = original.headers[n]

\* C14 holds when the original headers, if any, were supplied in init
C14_HeadersFromInit ==
  (RetrySent /\ ~(cInput.kind = "Request" /\ cInit = InitUndef)) =>
    C14_RetryPreservesRequest


\* the paymentPayload the retry carries in its X-Payment header
RetryPaymentPayload ==
  Get(extractPayment(netCalls[2].init.f["headers"]), "paymentPayload")

\* its inner payload
RetryPayload == Get(RetryPaymentPayload, "payload")

\* C15: in every payment payload the client builds, validBefore minus
\* validAfter is exactly 3600 seconds and validAfter is the time of
\* construction in whole seconds, although the clock is read twice.
C15_ValidityWindow ==
  RetrySent =>
    LET validAfter  == Get(RetryPayload, "validAfter")
        validBefore == Get(RetryPayload, "validBefore")
    IN
    /\ validAfter = JStr(NatToStr(Seconds(clockReads[1])))
    /\ IsDigits(validAfter.s) /\ IsDigits(validBefore.s)
    /\ DigitsToNat(validBefore.s) - DigitsToNat(validAfter.s) = 3600

\* C15 holds whenever both readings of the clock fall into the same second
C15_SameSecond ==
  (RetrySent /\ Seconds(clockReads[1]) = Seconds(clockReads[2])) => C15_ValidityWindow


\* the first response is a 402 whose body is not JSON, has no
\* paymentRequirements, or has paymentRequirements without the field
MalformedChallenge(fields) ==
  /\ firstResponse.status = 402
  /\ \/ ~HasRequirements
     \/ \E k \in fields : k \notin DOMAIN ReceivedRequirements.f

\* fetch has rejected without a retry
RejectedWithoutRetry == clientP.state = "rejected" /\ Len(netCalls) = 1

\* C16: when the first response is 402 and its body is not JSON, lacks
\* paymentRequirements, or has paymentRequirements lacking maxAmountRequired
\* or payTo, fetch rejects and sends no retry, with or without a ceiling.
C16_ProtocolFormatError ==
  (FirstHandled /\ MalformedChallenge({"maxAmountRequired", "payTo"})) =>
    RejectedWithoutRetry

\* C16 holds for a body that is not JSON or has no paymentRequirements
C16_NoRequirements ==
  (FirstHandled /\ MalformedChallenge({})) => RejectedWithoutRetry

\* C16 holds for a missing maxAmountRequired under a ceiling that is not 0n
C16_MissingAmountUnderCeiling ==
  (FirstHandled /\ MalformedChallenge({"maxAmountRequired"})
     /\ Truthy(clientConfig.maxPaymentAmount)) => RejectedWithoutRetry


\* createPaymentRequirements was called and has returned
RequirementsCreated == apiCall.fn = "createPaymentRequirements" /\ apiPc = "done"

\* an asset is given: a string that is not empty
AssetGiven(config) == config.asset.t = "string" /\ config.asset.s # <<>>

\* C17: createPaymentRequirements makes no network call and returns scheme
\* 'exact', the handler's network and treasury address, the given amount and
\* resource, and the given asset when one is given, no asset otherwise.
C17_RequirementsConstruction ==
  /\ apiCall.fn = "createPaymentRequirements" => apiNet = <<>>
  /\ RequirementsCreated =>
       /\ apiResult.state = "fulfilled"
       /\ LET r == apiResult.value
              config == apiCall.config
          IN
          /\ r.t = "object"
          /\ DOMAIN r.f = {"scheme", "network", "payTo", "maxAmountRequired", "resource"}
                            \cup (IF AssetGiven(config) THEN {"asset"} ELSE {})
          /\ r.f["scheme"] = JStr(sExact)
          /\ r.f["network"] = JStr(apiCall.handlerConfig.network)
          /\ r.f["payTo"] = JStr(apiCall.handlerConfig.treasuryAddress)
          /\ r.f["maxAmountRequired"] = config.amount
          /\ r.f["resource"] = config.resource
          /\ AssetGiven(config) => r.f["asset"] = config.asset

C17_Witness ==
  /\ RequirementsCreated
  /\ AssetGiven(apiCall.config)
  /\ apiCall.handlerConfig.network = sNetOther
  /\ apiCall.handlerConfig.treasuryAddress = sOtherPayee
  /\ Get(apiResult.value, "asset") = JStr(sAsset)


\* getHealth or getSupported is the function called
GetCalled == apiCall.fn \in {"getHealth", "getSupported"}

\* the url the function is to ask: facilitatorUrl followed by its path
ExpectedGetUrl ==
  apiCall.facilitatorUrl
    \o (IF apiCall.fn = "getHealth" THEN <<47, 104, 101, 97, 108, 116, 104>>
        ELSE <<47, 115, 117, 112, 112, 111, 114, 116, 101, 100>>)

SettleCallsFor(e) ==
  UNION { { <<r, i>> : i \in CallsTo(r, sSettlePath) }
            : r \in { q \in Reqs : pc[q] # "idle" /\ PaymentHeader(req[q].headers) = e } }

\* C19: across the requests one middleware handles, the same envelope
\* presented in two or more verified requests included, at most one /settle
\* request is issued for a given envelope.
C19_SettleOncePerEnvelope ==
  \A e \in {EnvText, ForgedEnvText} : Cardinality(SettleCallsFor(e)) <= 1

\* within one invocation of the middleware at most one /settle request is
\* issued
C19_SettleOncePerInvocation ==
  \A r \in Reqs : Cardinality(CallsTo(r, sSettlePath)) <= 1


\* '0x' followed by n zeros
ZeroHex(n) == <<48, 120>> \o [i \in 1..n |-> 48]

\* C20: in every payment payload the client builds from a 402 response,
\* payload.to is requirements.payTo, payload.value is
\* requirements.maxAmountRequired, payload.from is the wallet's public
\* address, and v, r, s are the zero-filled placeholders; the wallet is never
\* asked to sign.
C20_PayloadFields ==
  /\ \A i \in DOMAIN walletCalls : walletCalls[i] = "publicKey.toBase58"
  /\ RetrySent =>
       /\ Get(RetryPayload, "to") = Get(ReceivedRequirements, "payTo")
       /\ Get(RetryPayload, "value") = Get(ReceivedRequirements, "maxAmountRequired")
       /\ Get(RetryPayload, "from") = JStr(clientConfig.wallet.publicKey)
       /\ Get(RetryPayload, "v") = JStr(ZeroHex(2))
       /\ Get(RetryPayload, "r") = JStr(ZeroHex(64))
       /\ Get(RetryPayload, "s") = JStr(ZeroHex(64))
       /\ walletCalls = <<"publicKey.toBase58">>

C20_Witness ==
  /\ RetrySent
  /\ Get(RetryPayload, "to") = JStr(sTreasury)
  /\ Get(RetryPayload, "value") = JStr(sOne)
  /\ clientConfig.wallet.publicKey = sOtherPayee
  /\ Get(RetryPayload, "from") = JStr(sOtherPayee)
  /\ Get(RetryPayload, "r") = JStr(ZeroHex(64))


\* the envelope the retry carries in its X-Payment header
RetryEnvelope == extractPayment(netCalls[2].init.f["headers"])

\* C21: every envelope the client attaches carries a payload matched to its
\* requirements: paymentPayload.scheme is paymentRequirements.scheme and
\* paymentPayload.network is paymentRequirements.network, for every 402
\* response and every client configuration.
C21_PayloadMatchesRequirements ==
  RetrySent =>
    LET payload      == Get(RetryEnvelope, "paymentPayload")
        requirements == Get(RetryEnvelope, "paymentRequirements")
    IN
    /\ Get(payload, "scheme") = Get(requirements, "scheme")
    /\ Get(payload, "network") = Get(requirements, "network")

\* the scheme of the payload is always the scheme of the requirements
C21_SchemeMatches ==
  RetrySent =>
    Get(Get(RetryEnvelope, "paymentPayload"), "scheme")
      = Get(Get(RetryEnvelope, "paymentRequirements"), "scheme")

\* the network of the payload is the network the client is configured with
C21_NetworkFromConfig ==
  RetrySent =>
    Get(Get(RetryEnvelope, "paymentPayload"), "network") = JStr(clientConfig.network)


\* the first request has failed: fetch is over and no response has arrived
FirstRequestFailed == cpc = "done" /\ firstResponse.id = 0

\* the retry has failed: fetch is over, the retry was sent and no response to
\* it has arrived
RetryFailed == cpc = "done" /\ RetrySent /\ retryResponse.id = 0

\* C22: a network failure on either request reaches the caller as it is: when
\* the first request fails no second request is made, and when the retry
\* fails fetch rejects with that error and no further request is made.
C22_NetworkFailurePropagates ==
  /\ FirstRequestFailed =>
       /\ clientP = Rejected([name |-> NetError.error, message |-> <<>>])
       /\ Len(netCalls) = 1
  /\ RetryFailed =>
       /\ clientP = Rejected([name |-> NetError.error, message |-> <<>>])
       /\ Len(netCalls) = 2
       /\ firstResponse.status = 402

C22_Witness == RetryFailed /\ clientP.state = "rejected"

\* the first request fails and fetch ends with its error
C22_WitnessFirst == FirstRequestFailed /\ clientP.state = "rejected" /\ Len(netCalls) = 1


\* the /verify call of invocation r has failed: the fetch rejected or the body
\* was not JSON
VerifyFailed(r) ==
  \/ verifyOutcome[r].kind = "error"
  \/ verifyOutcome[r].kind = "response" /\ ~IsJSON(verifyOutcome[r].body)

\* C23: per request, at most one /verify and at most one /settle request are
\* issued; a /settle request is issued only after /verify has returned
\* isValid true for that request, and no facilitator call is repeated after a
\* failure.
C23_NoRepeatedCalls ==
  \A r \in Reqs :
    /\ Cardinality(CallsTo(r, sVerifyPath)) <= 1
    /\ Cardinality(CallsTo(r, sSettlePath)) <= 1
    /\ Len(calls[r]) = Cardinality(CallsTo(r, sVerifyPath))
                         + Cardinality(CallsTo(r, sSettlePath))
    /\ CallsTo(r, sSettlePath) # {} =>
         /\ SaysValid(verifyOutcome[r])
         /\ CallsTo(r, sVerifyPath) = {1}
         /\ CallsTo(r, sSettlePath) = {2}
    /\ VerifyFailed(r) => Len(calls[r]) = 1
    /\ settleP[r].state = "rejected" => Len(calls[r]) = 2

C23_Witness ==
  \E r \in Reqs :
    /\ settleP[r].state = "rejected"
    /\ CallsTo(r, sSettlePath) = {2}
    /\ \E q \in Reqs : VerifyFailed(q) /\ Len(calls[q]) = 1


\* the events of the valid-payment path in the order claimed, for a
\* middleware with or without the callback
ValidPathOrder ==
  <<"verify_req", "verify_resp">>
    \o (IF mwConfig.onPaymentVerified THEN <<"callback">> ELSE <<>>)
    \o <<"settle_req", "next">>

\* s is an initial part of t
IsPrefix(s, t) == Len(s) <= Len(t) /\ \A i \in DOMAIN s : s[i] = t[i]

\* invocation r has received a /verify response that says isValid true
OnValidPath(r) == pc[r] = "done" /\ SaysValid(verifyOutcome[r])

\* C24: on the valid-payment path the /verify response is received, then
\* onPaymentVerified (if provided) is invoked with the extracted envelope,
\* then the /settle request is issued, then next is called; /settle is never
\* issued before the callback has returned and next never before /settle has
\* been issued.
C24_ValidPathOrder ==
  \A r \in Reqs :
    OnValidPath(r) =>
      /\ IsPrefix(trace[r], ValidPathOrder)
      /\ Len(trace[r]) >= 2
      /\ nextCalls[r] > 0 => trace[r] = ValidPathOrder
      /\ CallsTo(r, sSettlePath) # {} =>
           \E i \in DOMAIN trace[r] :
             /\ trace[r][i] = "settle_req"
             /\ mwConfig.onPaymentVerified => trace[r][i - 1] = "callback"
      /\ mwConfig.onPaymentVerified =>
           cbCalls[r] = << extractPayment(req[r].headers) >>
      /\ ~mwConfig.onPaymentVerified => cbCalls[r] = <<>>

C24_Witness ==
  \E r \in Reqs :
    /\ OnValidPath(r)
    /\ mwConfig.onPaymentVerified
    /\ trace[r] = <<"verify_req", "verify_resp", "callback", "settle_req", "next">>
    /\ nextCalls[r] = 1
    /\ Len(cbCalls[r]) = 1


\* the resource the server names for a request: the configured one, or the
\* request's originalUrl, or its url, or '/'
ServerResource(request) ==
  IF mwConfig.resource.t = "string" /\ mwConfig.resource.s # <<>> THEN mwConfig.resource
  ELSE IF request.originalUrl.t = "string" /\ request.originalUrl.s # <<>>
       THEN request.originalUrl
  ELSE IF request.url.t = "string" /\ request.url.s # <<>> THEN request.url
  ELSE JStr(<<47>>)

\* the requirements of the server's own configuration for a request
ServerRequirements(request) ==
  JObj([scheme            |-> JStr(sExact),
        network           |-> JStr(handler.network),
        payTo             |-> JStr(handler.treasuryAddress),
        maxAmountRequired |-> mwConfig.amount,
        resource          |-> ServerResource(request)])

\* two invocations whose envelopes differ in nothing but paymentRequirements
DifferOnlyInRequirements(r, q) ==
  LET a == extractPayment(req[r].headers)
      b == extractPayment(req[q].headers)
  IN
  /\ a # JNull /\ b # JNull
  /\ Get(a, "paymentPayload") = Get(b, "paymentPayload")
  /\ Get(a, "x402Version") = Get(b, "x402Version")
  /\ Get(a, "paymentRequirements") # Get(b, "paymentRequirements")
  /\ req[r].originalUrl = req[q].originalUrl
  /\ req[r].url = req[q].url

\* C25: the paymentRequirements the middleware forwards to /verify and
\* /settle are the ones the server builds from its own configuration, never
\* those of the client's envelope: two requests whose envelopes differ only in
\* paymentRequirements produce identical /verify and /settle request bodies.
C25_ServerRequirementsForwarded ==
  /\ \A r \in Reqs : \A i \in DOMAIN calls[r] :
       /\ IsJSON(calls[r][i].body)
       /\ Get(JSONparse(calls[r][i].body), "paymentRequirements")
            = ServerRequirements(req[r])
       /\ Get(JSONparse(calls[r][i].body), "paymentPayload")
            = Get(extractPayment(req[r].headers), "paymentPayload")
  /\ \A r, q \in Reqs :
       DifferOnlyInRequirements(r, q) =>
         \A i \in DOMAIN calls[r] \cap DOMAIN calls[q] :
           calls[r][i].body = calls[q][i].body

C25_Witness ==
  \E r, q \in Reqs :
    /\ DifferOnlyInRequirements(r, q)
    /\ CallsTo(r, sSettlePath) = {2}
    /\ CallsTo(q, sSettlePath) = {2}
    /\ calls[r] = calls[q]


\* invocation r has written a 402 response and not called next, or called
\* next and written no response
TerminalOutcome(r) ==
  \/ Len(responses[r]) = 1 /\ responses[r][1].status = 402 /\ nextCalls[r] = 0
  \/ Len(responses[r]) = 0 /\ nextCalls[r] = 1

\* C26: every middleware invocation eventually reaches exactly one terminal
\* outcome, a 402 response written or next called and never both, provided
\* the /verify call eventually returns or fails, whether or not the /settle
\* call ever completes.
C26_TerminalOutcome ==
  \A r \in Reqs :
    /\ (pc[r] # "idle") ~> TerminalOutcome(r)
    /\ [](Len(responses[r]) + nextCalls[r] <= 1)

\* a response and next never both happen, and neither happens twice
C26_NeverBoth == \A r \in Reqs : Len(responses[r]) + nextCalls[r] <= 1

\* C26 holds for a middleware without the onPaymentVerified callback
C26_WithoutCallback ==
  \A r \in Reqs :
    (pc[r] # "idle" /\ ~mwConfig.onPaymentVerified) ~> TerminalOutcome(r)

\* an invocation that is over has a terminal outcome unless the callback of a
\* verified payment threw
C26_OverWithoutOutcome ==
  \A r \in Reqs :
    (pc[r] = "done" /\ ~TerminalOutcome(r)) =>
      /\ mwConfig.onPaymentVerified
      /\ SaysValid(verifyOutcome[r])
      /\ mwP[r].state = "rejected"


\* C27: when onPaymentVerified throws after a successful verification, the
\* middleware's promise rejects, no /settle request is issued, next is not
\* called and no response is written: the verified payment gets neither
\* access nor a settlement attempt.
C27_CallbackThrowAborts ==
  \A r \in Reqs :
    cbResult[r] = "throws" =>
      /\ SaysValid(verifyOutcome[r])
      /\ mwP[r].state = "rejected"
      /\ CallsTo(r, sSettlePath) = {}
      /\ settleP[r] = NoPromise
      /\ nextCalls[r] = 0
      /\ responses[r] = <<>>
      /\ pc[r] = "done"

C27_Witness ==
  \E r \in Reqs :
    /\ cbResult[r] = "throws"
    /\ Len(cbCalls[r]) = 1
    /\ mwP[r].state = "rejected"
    /\ Len(calls[r]) = 1


\* what belongs to invocation r
LocalState(r) ==
  << pc[r], req[r], mwP[r], verifyOutcome[r], verifyP[r], settleOutcome[r],
     settleP[r], calls[r], responses[r], nextCalls[r], cbCalls[r], cbResult[r],
     trace[r], log[r] >>

\* the calls invocation r is to issue, given its own request and how far its
\* own facilitator calls have come
OwnCalls(r) ==
  LET payment      == extractPayment(req[r].headers)
      requirements == ServerRequirements(req[r])
      call(path)   == [url    |-> handler.facilitatorUrl \o path,
                       method |-> "POST",
                       body   |-> JSONstringify(Envelope(Get(payment, "paymentPayload"),
                                                         requirements))]
  IN
  IF pc[r] = "idle" \/ payment = JNull THEN <<>>
  ELSE IF pc[r] = "done" /\ SaysValid(verifyOutcome[r]) /\ cbResult[r] # "throws"
       THEN << call(sVerifyPath), call(sSettlePath) >>
       ELSE << call(sVerifyPath) >>

\* the outcome of invocation r, given its own request and its own /verify
\* response: "none", "challenge", "invalid", "next" or "rejected"
OwnOutcome(r) ==
  IF pc[r] = "idle" THEN "none"
  ELSE IF extractPayment(req[r].headers) = JNull THEN "challenge"
  ELSE IF pc[r] # "done" THEN "none"
  ELSE IF ~SaysValid(verifyOutcome[r]) THEN "invalid"
  ELSE IF cbResult[r] = "throws" THEN "rejected"
  ELSE "next"

\* the outcome invocation r has come to
Outcome(r) ==
  IF nextCalls[r] > 0 THEN "next"
  ELSE IF responses[r] = << [status |-> 402, body |-> InvalidPaymentBody] >> THEN "invalid"
  ELSE IF responses[r] # <<>> THEN "challenge"
  ELSE IF mwP[r].state = "rejected" THEN "rejected"
  ELSE "none"

\* in every state each invocation's calls and outcome are those its own
\* request and responses determine
OwnDependence ==
  \A r \in Reqs :
    /\ calls[r] = OwnCalls(r)
    /\ Outcome(r) = OwnOutcome(r)
    /\ Outcome(r) = "challenge" =>
         responses[r] = << create402Response(ServerRequirements(req[r])) >>

\* a step leaves the configuration alone and changes what belongs to one
\* invocation at most
OneInvocationPerStep ==
  /\ handler' = handler
  /\ mwConfig' = mwConfig
  /\ \A r, q \in Reqs :
       (r # q /\ LocalState(r)' # LocalState(r)) => LocalState(q)' = LocalState(q)

IsAmountString(v) == v.t = "string" /\ v.s # <<>> /\ IsDigits(v.s)

\* C29: every PaymentRequirements the library produces or acts on has
\* maxAmountRequired a non-negative base-10 integer string: the client never
\* sends a retry whose envelope carries requirements violating this, and
\* createPaymentRequirements never yields such requirements.
C29_AmountIsIntegerString ==
  /\ RetrySent =>
       IsAmountString(Get(Get(RetryEnvelope, "paymentRequirements"), "maxAmountRequired"))
  /\ RequirementsCreated =>
       IsAmountString(Get(apiResult.value, "maxAmountRequired"))

\* the part of C29 about createPaymentRequirements
C29_CreatedAmount ==
  RequirementsCreated => IsAmountString(Get(apiResult.value, "maxAmountRequired"))

\* under a ceiling that is not 0n, a retry is sent only for an amount that
\* reads as an integer
C29_UnderCeiling ==
  (RetrySent /\ Truthy(clientConfig.maxPaymentAmount)) => AmountReadable

====
